---- MODULE Spec2Model ----
(***************************************************************************)
(* Model of py-smartdc's network support: the Network resource proxy       *)
(* (smartdc/network.py) and the network operations of TefDataCenter        *)
(* (smartdc/tef.py).                                                       *)
(*                                                                         *)
(* Python values are encoded as follows.                                   *)
(*   - an optional value is a sequence: <<>> is None (or an absent         *)
(*     argument), <<v>> is the value v;                                    *)
(*   - a str that a regular expression inspects is a sequence of           *)
(*     one-character strings; other strs are TLA+ strings;                 *)
(*   - a dict is a function (record) whose DOMAIN is its key set;          *)
(*   - a str concatenation that builds a path is a sequence of segments;   *)
(*   - an exception is named by its Python class.                          *)
(* One proxy object is modelled (net); call records the last method call:  *)
(* its name, arguments, outcome, return value and the requests it issued.  *)
(* pc, poll and seen are the position, the arguments (with the number of    *)
(* sleeps so far) and the status() results of a running poll_until /        *)
(* poll_while; lastGood is the mapping                                      *)
(* the snapshot was last loaded from successfully; remote is the network    *)
(* collection the service lists.                                            *)
(***************************************************************************)
EXTENDS Integers, Sequences, FiniteSets, TLC

VARIABLES net, call, pc, poll, seen, lastGood, remote

vars == <<net, call, pc, poll, seen, lastGood, remote>>

(* ------------------------------ bounds --------------------------------- *)

\* most status() calls one poll_until / poll_while run may make
MaxPolls == 3

(* --------------------------- Python helpers ---------------------------- *)

Nothing == <<>>

Some(v) == <<v>>

\* dict.get(key): None when the key is absent
Get(d, k) == IF k \in DOMAIN d THEN Some(d[k]) ELSE Nothing

\* dict.pop(key) on a dict that has the key: the dict without it
Pop(d, k) == [x \in DOMAIN d \ {k} |-> d[x]]

\* truth value of an optional dict: None and {} are false
DictTruthy(od) == od # Nothing /\ DOMAIN od[1] # {}

\* truth value of an optional str given as a TLA+ string
StrTruthy(o) == o # Nothing /\ o[1] # ""

\* truth value of an optional list or character-sequence str
SeqTruthy(o) == o # Nothing /\ o[1] # <<>>

\* truth value of an optional int: None and 0 are false
IntTruthy(o) == o # Nothing /\ o[1] # 0

(* ------------------------- the remote service -------------------------- *)

Web1 == <<"w", "e", "b", "-", "1">>
Db1 == <<"d", "b", "-", "1">>
Web2 == <<"w", "e", "b", "-", "2">>

NetBody(id, name, status) ==
    [id |-> id, name |-> name, subnet |-> "10.0.0.0/24",
     resolver_ips |-> <<"8.8.8.8", "4.4.4.4">>,
     private_gw_ip |-> "10.0.0.1", public_gw_ip |-> "193.0.0.1",
     status |-> status]

Statuses == {"provisioning", "running"}

\* decoded bodies of a successful GET networks/:id
Bodies ==
    {NetBody("n1", Web1, s) : s \in Statuses}
        \cup {[id |-> "n1", name |-> Db1, status |-> "running"]}

\* decoded body of an error response
ErrBody == [code |-> "InternalError", message |-> "failure"]

\* what the transport may answer to one request: a success with a body, a
\* non-success HTTP response with an error body, or no response at all
Responses(okBodies) ==
    {[kind |-> "ok", status |-> 200, body |-> b] : b \in okBodies}
        \cup {[kind |-> "http_error", status |-> 500, body |-> ErrBody]}
        \cup {[kind |-> "raise", status |-> 0, body |-> ErrBody]}

\* DataCenter.request(method, path, data=...): performs the HTTP call and
\* returns the decoded body j and the response r, whatever r's status; a
\* transport failure raises.  req is the exchange: the request put on the
\* wire and the status of its answer (0: none).
Request(method, path, data, resp) ==
    [req |-> [method |-> method, path |-> path, data |-> data,
              status |-> resp.status],
     raised |-> resp.kind = "raise",
     j |-> resp.body,
     status_code |-> resp.status]

\* requests.Response.raise_for_status(): raises HTTPError for 4xx and 5xx
RaiseForStatus(status_code) == status_code >= 400

(* --------------------------- TefDataCenter ----------------------------- *)

\* TefDataCenter.raw_network_data(network_id): GET networks/:id, returns j
\* (r is dropped)
raw_network_data(network_id, resp) ==
    Request("GET", <<"networks", network_id>>, Nothing, resp)

(* ------------------------------ Network -------------------------------- *)

NoProxy ==
    [id |-> "", name |-> Nothing, subnet |-> Nothing,
     resolver_ips |-> Nothing, private_gw_ip |-> Nothing,
     public_gw_ip |-> Nothing, state |-> Nothing]

\* Network._save(data)
_save(self, data) ==
    [self EXCEPT !.name = Get(data, "name"),
                 !.subnet = Get(data, "subnet"),
                 !.resolver_ips = Get(data, "resolver_ips"),
                 !.private_gw_ip = Get(data, "private_gw_ip"),
                 !.public_gw_ip = Get(data, "public_gw_ip"),
                 !.state = Get(data, "status")]

\* Network.path
path(self) == <<"networks", self.id>>

\* Network.__init__(datacenter, network_id, data) as a function of the
\* answer resp the datacenter would give to a fetch: the new object (obj),
\* the exception raised if any (error), the requests issued (reqs) and
\* whether a body was fetched successfully (fetched).
NetworkInit(network_id, data, resp) ==
    LET failed(e, rs) ==
            [obj |-> NoProxy, error |-> e, reqs |-> rs, fetched |-> Nothing]
        rest(id, d) ==
            \* d is data after the pop
            IF ~DictTruthy(d)
            THEN LET f == raw_network_data(id, resp)
                 IN  IF f.raised
                     THEN failed("RequestException", <<f.req>>)
                     ELSE [obj |-> _save([NoProxy EXCEPT !.id = id], f.j),
                           error |-> "", reqs |-> <<f.req>>,
                           fetched |-> IF resp.kind = "ok"
                                       THEN Some(f.j) ELSE Nothing]
            ELSE [obj |-> _save([NoProxy EXCEPT !.id = id], d[1]),
                  error |-> "", reqs |-> <<>>, fetched |-> Nothing]
    IN  IF StrTruthy(network_id)
        THEN rest(network_id[1], data)
        ELSE IF data = Nothing
        THEN failed("AttributeError", <<>>)
        ELSE IF "id" \notin DOMAIN data[1]
        THEN failed("KeyError", <<>>)
        ELSE rest(data[1].id, Some(Pop(data[1], "id")))

\* the data mappings a caller constructs a proxy from
DataInputs ==
    Bodies \cup {[id |-> "n1"], [id |-> "n2", name |-> Web2],
                 [name |-> Web1], <<>>}

Idle == pc = "idle"

NoArgs == [none |-> TRUE]

Done(op, args, outcome, ret, reqs) ==
    [op |-> op, args |-> args, outcome |-> outcome, ret |-> ret,
     reqs |-> reqs]

\* obj = Network(datacenter, network_id, data)
Construct ==
    /\ Idle
    /\ \E network_id \in {Nothing, Some("n1")},
          data \in {Nothing} \cup {Some(d) : d \in DataInputs},
          resp \in Responses(Bodies) :
          LET n == NetworkInit(network_id, data, resp)
              a == [network_id |-> network_id, data |-> data]
          IN  IF n.error # ""
              THEN /\ call' = Done("Network", a, n.error, Nothing, n.reqs)
                   /\ UNCHANGED <<net, lastGood>>
              ELSE /\ call' = Done("Network", a, "return", Nothing, n.reqs)
                   /\ net' = n.obj
                   /\ lastGood' = IF n.reqs = <<>> THEN data
                                  ELSE n.fetched
    /\ UNCHANGED <<pc, poll, seen, remote>>

HasProxy == net.id # ""

\* Network.refresh(), as a function of the datacenter's answer
refresh(self, resp) ==
    LET f == raw_network_data(self.id, resp)
    IN  [self |-> IF f.raised THEN self ELSE _save(self, f.j),
         error |-> IF f.raised THEN "RequestException" ELSE "",
         reqs |-> <<f.req>>]

\* lastGood after a fetch answered by resp
Fetched(resp) == IF resp.kind = "ok" THEN Some(resp.body) ELSE lastGood

\* net.refresh()
Refresh ==
    /\ Idle /\ HasProxy
    /\ \E resp \in Responses(Bodies) :
          LET f == refresh(net, resp)
          IN  /\ net' = f.self
              /\ lastGood' = Fetched(resp)
              /\ call' = Done("refresh", NoArgs,
                              IF f.error # "" THEN f.error ELSE "return",
                              Nothing, f.reqs)
    /\ UNCHANGED <<pc, poll, seen, remote>>

\* net.status(): refresh, then return self.state
Status ==
    /\ Idle /\ HasProxy
    /\ \E resp \in Responses(Bodies) :
          LET f == refresh(net, resp)
          IN  /\ net' = f.self
              /\ lastGood' = Fetched(resp)
              /\ call' = IF f.error # ""
                         THEN Done("status", NoArgs, f.error, Nothing, f.reqs)
                         ELSE Done("status", NoArgs, "return", f.self.state,
                                   f.reqs)
    /\ UNCHANGED <<pc, poll, seen, remote>>

(* --------------------- poll_until and poll_while ----------------------- *)

\* poll_until with the loop test inverted
PollUntilInverted(st, target) == st = Some(target)

\* the loop test of poll_until: keep polling while status() != status
PollUntilContinues(st, target) == st # Some(target)

\* the loop test of poll_while: keep polling while status() == status
PollWhileContinues(st, target) == st = Some(target)

\* a loop that catches the exception of status() and polls on
PollSwallowsRaise(error) == [pc |-> "sleep", outcome |-> "running"]

\* status() raises inside the loop test: nothing catches the exception, so
\* it leaves the loop and the method
PollAfterRaise(error) == [pc |-> "idle", outcome |-> error]

\* net.poll_until(status) / net.poll_while(status) is entered
PollStart ==
    /\ Idle /\ HasProxy
    /\ \E op \in {"poll_until", "poll_while"}, target \in Statuses :
          /\ poll' = [op |-> op, status |-> target, sleeps |-> 0]
          /\ call' = Done(op, [status |-> target], "running", Nothing, <<>>)
    /\ pc' = "status"
    /\ seen' = <<>>
    /\ UNCHANGED <<net, lastGood, remote>>

\* one evaluation of the loop test: self.status() and the comparison
PollStatus ==
    /\ pc = "status"
    /\ Len(seen) < MaxPolls
    /\ \E resp \in Responses(Bodies) :
          LET f == refresh(net, resp)
              st == f.self.state
              again == IF poll.op = "poll_until"
                       THEN PollUntilContinues(st, poll.status)
                       ELSE PollWhileContinues(st, poll.status)
          IN  /\ net' = f.self
              /\ lastGood' = Fetched(resp)
              /\ IF f.error # ""
                 THEN /\ call' = [call EXCEPT
                                     !.outcome = PollAfterRaise(f.error).outcome,
                                     !.reqs = @ \o f.reqs]
                      /\ pc' = PollAfterRaise(f.error).pc
                      /\ seen' = seen
                 ELSE /\ call' = [call EXCEPT
                                     !.outcome = IF again THEN "running"
                                                 ELSE "return",
                                     !.reqs = @ \o f.reqs]
                      /\ pc' = IF again THEN "sleep" ELSE "idle"
                      /\ seen' = Append(seen, st)
    /\ UNCHANGED <<poll, remote>>

\* time.sleep(interval)
PollSleep ==
    /\ pc = "sleep"
    /\ pc' = "status"
    /\ poll' = [poll EXCEPT !.sleeps = @ + 1]
    /\ UNCHANGED <<net, call, seen, lastGood, remote>>

(* ---------------------------- set_outbound --------------------------- *)

\* values a caller may pass as enabled, with their Python type
EnabledInputs ==
    {[type |-> "bool", v |-> "True"], [type |-> "bool", v |-> "False"],
     [type |-> "str", v |-> "yes"], [type |-> "str", v |-> ""],
     [type |-> "int", v |-> "1"], [type |-> "NoneType", v |-> "None"]}

\* a truth test in place of the type test
IsTruthyNotBool(enabled) == enabled.v \notin {"False", "", "None", "0"}

\* isinstance(enabled, bool)
IsBool(enabled) == enabled.type = "bool"

\* decoded body of a successful PUT / GET networks/:id/outbound
OutboundBodies == {[enabled |-> "True"], [enabled |-> "False"]}

\* net.set_outbound(enabled)
SetOutbound ==
    /\ Idle /\ HasProxy
    /\ \E enabled \in EnabledInputs, resp \in Responses(OutboundBodies) :
          LET a == [enabled |-> enabled]
              f == Request("PUT", path(net) \o <<"outbound">>,
                           Some([enabled |-> enabled]), resp)
          IN  call' =
                  IF ~IsBool(enabled)
                  THEN Done("set_outbound", a, "AssertionError", Nothing,
                            <<>>)
                  ELSE IF f.raised
                  THEN Done("set_outbound", a, "RequestException", Nothing,
                            <<f.req>>)
                  ELSE IF "enabled" \notin DOMAIN f.j
                  THEN Done("set_outbound", a, "KeyError", Nothing,
                            <<f.req>>)
                  ELSE Done("set_outbound", a, "return", Some(f.j.enabled),
                            <<f.req>>)
    /\ UNCHANGED <<net, pc, poll, seen, lastGood, remote>>

(* --------------------------- specification ----------------------------- *)

Init ==
    /\ net = NoProxy
    /\ call = Done("", NoArgs, "none", Nothing, <<>>)
    /\ pc = "idle"
    /\ poll = [op |-> "", status |-> "", sleeps |-> 0]
    /\ seen = <<>>
    /\ lastGood = Nothing
    /\ remote = <<>>

Next ==
    \/ Construct
    \/ Refresh
    \/ Status
    \/ PollStart
    \/ PollStatus
    \/ PollSleep
    \/ SetOutbound

Spec == Init /\ [][Next]_vars

(* ------------------------- regular expressions ------------------------- *)

Lower == {"a", "b", "c", "d", "e", "f", "g", "h", "i", "j", "k", "l", "m",
          "n", "o", "p", "q", "r", "s", "t", "u", "v", "w", "x", "y", "z"}

Upper == {"A", "B", "C", "D", "E", "F", "G", "H", "I", "J", "K", "L", "M",
          "N", "O", "P", "Q", "R", "S", "T", "U", "V", "W", "X", "Y", "Z"}

Digit == {"0", "1", "2", "3", "4", "5", "6", "7", "8", "9"}

\* a pattern is a sequence of items; an item matches between lo and hi
\* characters of the class cls (hi = -1: no upper limit)
Rep(cls, lo, hi) == [cls |-> cls, lo |-> lo, hi |-> hi]

Plus(cls) == Rep(cls, 1, -1)

Lit(c) == Rep({c}, 1, 1)

Min(a, b) == IF a < b THEN a ELSE b

\* the items pat[i..] match some run of characters of s that starts at
\* position j (backtracking over the repetition counts)
RECURSIVE MatchAt(_, _, _, _)
MatchAt(pat, i, s, j) ==
    IF i > Len(pat) THEN TRUE
    ELSE LET left == Len(s) - j + 1
             most == IF pat[i].hi < 0 THEN left ELSE Min(pat[i].hi, left)
         IN  \E k \in pat[i].lo .. most :
                /\ \A m \in j..(j + k - 1) : s[m] \in pat[i].cls
                /\ MatchAt(pat, i + 1, s, j + k)

\* re.match(pattern, string) is not None: the pattern matches at the start
\* of the string; nothing is required of what follows the match
re_match(pat, s) == MatchAt(pat, 1, s, 1)

\* [0-9]+\.[0-9]+\.[0-9]+\.[0-9]+
DottedQuad ==
    <<Plus(Digit), Lit("."), Plus(Digit), Lit("."), Plus(Digit), Lit("."),
      Plus(Digit)>>

\* \/[0-9]+
MaskSuffix == <<Lit("/"), Plus(Digit)>>

\* str.find(c): the 0-based index of the first c in s, -1 when there is none
Find(s, c) ==
    IF \E i \in 1..Len(s) : s[i] = c
    THEN (CHOOSE i \in 1..Len(s) :
              s[i] = c /\ \A m \in 1..(i - 1) : s[m] # c) - 1
    ELSE -1

\* the str of n copies of the character c
Copies(c, n) == [i \in 1..n |-> c]

(* -------------------------- add_inbound_rule --------------------------- *)

\* r'[a-zA-Z0-9-_]{1,32}'
InboundNamePattern ==
    <<Rep(Lower \cup Upper \cup Digit \cup {"-", "_"}, 1, 32)>>

\* assert re.match(r'[a-zA-Z0-9-_]{1,32}', name)
InboundNameOk(name) == re_match(InboundNamePattern, name)

\* start_port>=0 and start_port<=65535
StartPortOk(start_port) == start_port >= 0 /\ start_port <= 65535

\* the end_port test without its lower limit
EndPortOkNoLower(start_port, end_port) == end_port <= 65535

\* end_port>=start_port and end_port<=65535
EndPortOk(start_port, end_port) ==
    end_port >= start_port /\ end_port <= 65535

\* re.match(r'[0-9]+\.[0-9]+\.[0-9]+\.[0-9]+(\/[0-9]+)?', source_subnet)
SourceSubnetOk(source_subnet) ==
    \/ re_match(DottedQuad \o MaskSuffix, source_subnet)
    \/ re_match(DottedQuad, source_subnet)

\* re.match(r'[0-9]+\.[0-9]+\.[0-9]+\.[0-9]+', destination_ip)
DestinationIpOk(destination_ip) == re_match(DottedQuad, destination_ip)

\* destination_base_port>=0 and destination_base_port<=65535
BasePortOk(destination_base_port) ==
    destination_base_port >= 0 /\ destination_base_port <= 65535

\* a protocols argument is a str or a list; the field its type names holds
\* the value
ProtocolsStr(v) == [type |-> "str", str |-> v, list |-> <<>>]

ProtocolsList(v) == [type |-> "list", str |-> "", list |-> v]

\* the protocols value submitted: a str becomes a one-element list, an
\* omitted or empty value becomes ["tcp", "udp"]
ProtocolsParam(protocols) ==
    IF /\ protocols # Nothing
       /\ IF protocols[1].type = "str" THEN protocols[1].str # ""
          ELSE protocols[1].list # <<>>
    THEN IF protocols[1].type = "str" THEN <<protocols[1].str>>
         ELSE protocols[1].list
    ELSE <<"tcp", "udp">>

\* the value stored under source_subnet when one is supplied
SourceSubnetParam(source_subnet) ==
    IF Find(source_subnet, "/") = 0
    THEN source_subnet \o <<"/", "3", "2">>
    ELSE source_subnet

\* the params dict add_inbound_rule builds from arguments that passed
\* every assertion
InboundParams(a) ==
    [name |-> a.name,
     start_port |-> a.start_port,
     end_port |-> IF IntTruthy(a.end_port) THEN a.end_port[1]
                  ELSE a.start_port,
     protocols |-> ProtocolsParam(a.protocols),
     destination_ip |-> a.destination_ip,
     destination_base_port |->
         IF IntTruthy(a.destination_base_port)
         THEN a.destination_base_port[1] ELSE a.start_port]
        @@ (IF SeqTruthy(a.source_subnet)
            THEN [source_subnet |-> SourceSubnetParam(a.source_subnet[1])]
            ELSE <<>>)

\* the assertion of add_inbound_rule that fails first, "" when none does
InboundAssertion(a) ==
    IF ~InboundNameOk(a.name) THEN "Illegal name"
    ELSE IF ~StartPortOk(a.start_port) THEN "Illegal start_port"
    ELSE IF IntTruthy(a.end_port) /\ ~EndPortOk(a.start_port, a.end_port[1])
    THEN "Illegal end_port"
    ELSE IF SeqTruthy(a.source_subnet) /\ ~SourceSubnetOk(a.source_subnet[1])
    THEN "Illegal source_subnet"
    ELSE IF ~DestinationIpOk(a.destination_ip) THEN "Illegal destination_ip"
    ELSE IF /\ IntTruthy(a.destination_base_port)
            /\ ~BasePortOk(a.destination_base_port[1])
    THEN "Illegal destination_base_port"
    ELSE ""

\* Network.add_inbound_rule(...) with arguments a, as a function of the
\* datacenter's answer
add_inbound_rule(self, a, resp) ==
    IF InboundAssertion(a) # ""
    THEN Done("add_inbound_rule", a, "AssertionError", Nothing, <<>>)
    ELSE LET f == Request("POST", path(self) \o <<"inbound">>,
                          Some(InboundParams(a)), resp)
         IN  IF f.raised
             THEN Done("add_inbound_rule", a, "RequestException", Nothing,
                       <<f.req>>)
             ELSE IF RaiseForStatus(f.status_code)
             THEN Done("add_inbound_rule", a, "HTTPError", Nothing,
                       <<f.req>>)
             ELSE Done("add_inbound_rule", a, "return", Some(f.j),
                       <<f.req>>)

Str_web == <<"w", "e", "b">>
Str_bad_name == <<"b", "a", "d", " ", "n", "a", "m", "e", "!">>
Str_10_0_0_5 == <<"1", "0", ".", "0", ".", "0", ".", "5">>
Str_10_0_0_0 == <<"1", "0", ".", "0", ".", "0", ".", "0">>
Str_not_a_cidr == <<"n", "o", "t", "-", "a", "-", "c", "i", "d", "r">>

\* the names callers pass: well-formed ones (the longest has 32
\* characters), the empty one, ones with a character outside the class at
\* the start or further on, and one of 33 characters
NameInputs ==
    {Str_web, <<"a", "_", "B", "-", "1">>, Copies("a", 32), <<>>,
     Str_bad_name, <<"!", "b", "a", "d">>, <<"w", "e", "b", ".">>,
     Copies("a", 33)}

StartPortInputs == {-1, 0, 80, 65535, 65536}

EndPortInputs ==
    {Nothing, Some(-1), Some(0), Some(79), Some(80), Some(443), Some(65535),
     Some(65536)}

BasePortInputs == {Nothing, Some(-1), Some(0), Some(8080), Some(65536)}

ProtocolsInputs ==
    {Nothing, Some(ProtocolsList(<<"tcp">>)), Some(ProtocolsStr("udp"))}

SourceSubnetInputs ==
    {Nothing, Some(Str_10_0_0_0 \o <<"/", "2", "4">>), Some(Str_10_0_0_0),
     Some(Str_not_a_cidr)}

DestinationIpInputs == {Str_10_0_0_5, <<"h", "o", "s", "t">>}

InboundArgs ==
    [name : NameInputs, start_port : StartPortInputs,
     end_port : EndPortInputs, protocols : ProtocolsInputs,
     source_subnet : SourceSubnetInputs,
     destination_ip : DestinationIpInputs,
     destination_base_port : BasePortInputs]

\* decoded body of a successful POST networks/:id/inbound
InboundBodies == {[name |-> "rule", id |-> "r1"]}

\* a call whose arguments are bound and whose body has not run yet
Called(op, args) == Done(op, args, "called", Nothing, <<>>)

\* net.add_inbound_rule(**call.args) runs
AddInboundRule ==
    /\ Idle /\ HasProxy
    /\ call.op = "add_inbound_rule"
    /\ call.outcome = "called"
    /\ \E resp \in Responses(InboundBodies) :
          call' = add_inbound_rule(net, call.args, resp)
    /\ UNCHANGED <<net, pc, poll, seen, lastGood, remote>>

\* a proxy built from a fetched body, and a call of add_inbound_rule with
\* any of the argument combinations
InitInbound ==
    /\ \E b \in Bodies : /\ net = _save([NoProxy EXCEPT !.id = b.id], b)
                         /\ lastGood = Some(b)
    /\ \E a \in InboundArgs : call = Called("add_inbound_rule", a)
    /\ pc = "idle"
    /\ poll = [op |-> "", status |-> "", sleeps |-> 0]
    /\ seen = <<>>
    /\ remote = <<>>

NextInbound == AddInboundRule

SpecInbound == InitInbound /\ [][NextInbound]_vars

(* ------------------- TefDataCenter: create_network --------------------- *)

\* r'[a-zA-Z0-9-]{1,32}'
NetworkNamePattern == <<Rep(Lower \cup Upper \cup Digit \cup {"-"}, 1, 32)>>

\* assert re.match(r'[a-zA-Z0-9-]{1,32}', name)
NetworkNameOk(name) == re_match(NetworkNamePattern, name)

\* assert re.match(r'[0-9]+\.[0-9]+\.[0-9]+\.[0-9]+\/[0-9]+', subnet)
SubnetOk(subnet) == re_match(DottedQuad \o MaskSuffix, subnet)

\* the params dict create_network builds (resolver_ips is an optional
\* list)
NetworkParams(a) ==
    [name |-> a.name, subnet |-> a.subnet]
        @@ (IF SeqTruthy(a.resolver_ips)
            THEN [resolver_ips |-> a.resolver_ips[1]] ELSE <<>>)

\* TefDataCenter.create_network(name, subnet, resolver_ips) with arguments
\* a, as a function of the service's answers to the POST (resp) and to a
\* fetch by the new proxy (resp2): the completed call and the proxy
create_network(a, resp, resp2) ==
    IF ~NetworkNameOk(a.name) \/ ~SubnetOk(a.subnet)
    THEN [call |-> Done("create_network", a, "AssertionError", Nothing,
                        <<>>),
          new |-> Nothing]
    ELSE LET f == Request("POST", <<"networks">>, Some(NetworkParams(a)),
                          resp)
             n == NetworkInit(Nothing, Some(f.j), resp2)
         IN  IF f.raised
             THEN [call |-> Done("create_network", a, "RequestException",
                                 Nothing, <<f.req>>),
                   new |-> Nothing]
             ELSE IF f.status_code >= 400
             THEN [call |-> Done("create_network", a, "HTTPError", Nothing,
                                 <<f.req>>),
                   new |-> Nothing]
             ELSE IF n.error # ""
             THEN [call |-> Done("create_network", a, n.error, Nothing,
                                 <<f.req>> \o n.reqs),
                   new |-> Nothing]
             ELSE [call |-> Done("create_network", a, "return",
                                 Some(n.obj), <<f.req>> \o n.reqs),
                   new |-> Some(n.obj)]

SubnetInputs ==
    {Str_10_0_0_0 \o <<"/", "2", "4">>, Str_not_a_cidr, Str_10_0_0_0,
     Str_10_0_0_0 \o <<"/", "2", "4", "x">>, Str_10_0_0_0 \o <<"/">>}

CreateNetworkArgs ==
    [name : NameInputs, subnet : SubnetInputs,
     resolver_ips : {Nothing, Some(<<"8.8.8.8">>)}]

\* net = datacenter.create_network(**call.args) runs
CreateNetwork ==
    /\ Idle
    /\ call.op = "create_network"
    /\ call.outcome = "called"
    /\ \E resp \in Responses(Bodies), resp2 \in Responses(Bodies) :
          LET c == create_network(call.args, resp, resp2)
          IN  /\ call' = c.call
              /\ net' = IF c.new = Nothing THEN net ELSE c.new[1]
              /\ lastGood' = IF c.new = Nothing THEN lastGood
                             ELSE Some(resp.body)
    /\ UNCHANGED <<pc, poll, seen, remote>>

(* ----------------------- TefDataCenter: networks ----------------------- *)

\* most entries the service's network collection holds
MaxList == 3

\* the entries the service may list
ListEntries ==
    {NetBody("n1", Web1, "running"), NetBody("n2", Db1, "running"),
     NetBody("n3", Web2, "provisioning")}

RECURSIVE SeqsUpTo(_, _)
SeqsUpTo(S, n) ==
    IF n = 0 THEN {<<>>}
    ELSE LET shorter == SeqsUpTo(S, n - 1)
         IN  shorter \cup {Append(q, x) : q \in shorter, x \in S}

RemoteLists == SeqsUpTo(ListEntries, MaxList)

\* the names the module binds: what tef.py imports and defines
TefModuleNames ==
    {"print_function", "LegacyDataCenter", "Network", "Machine", "re", "sys",
     "TefDataCenter"}

\* tef.py binds no search_dicts, so evaluating the name raises NameError
NameBound(name) == name \in TefModuleNames

\* search_dicts(j, search, fields): the entries of j one of whose listed
\* fields the expression "^" + search matches, in the order of j
RECURSIVE search_dicts(_, _, _)
search_dicts(j, search, fields) ==
    IF j = <<>> THEN <<>>
    ELSE LET m == j[1]
             hit == \E i \in 1..Len(fields) :
                       /\ fields[i] \in DOMAIN m
                       /\ Len(m[fields[i]]) >= Len(search)
                       /\ SubSeq(m[fields[i]], 1, Len(search)) = search
         IN  (IF hit THEN <<m>> ELSE <<>>)
                 \o search_dicts(Tail(j), search, fields)

\* TefDataCenter.networks(search, fields), as a function of the service's
\* answer to GET networks
networks(a, resp) ==
    LET f == Request("GET", <<"networks">>, Nothing, resp)
        each == [i \in 1..Len(f.j) |->
                    NetworkInit(Nothing, Some(f.j[i]), resp)]
    IN  IF f.raised
        THEN Done("networks", a, "RequestException", Nothing, <<f.req>>)
        ELSE IF a.search # Nothing /\ a.search[1] # <<>>
        THEN \* j = list(search_dicts(j, search, fields))
             IF ~NameBound("search_dicts")
             THEN Done("networks", a, "NameError", Nothing, <<f.req>>)
             ELSE LET fields == IF a.fields = Nothing THEN <<"name">>
                                ELSE a.fields[1]
                      found == search_dicts(f.j, a.search[1], fields)
                  IN  Done("networks", a, "return",
                           Some([i \in 1..Len(found) |->
                                    NetworkInit(Nothing, Some(found[i]),
                                                resp).obj]),
                           <<f.req>>)
        ELSE IF resp.kind # "ok"
        THEN \* iterating the error mapping yields its keys, which are strs
             Done("networks", a, "AttributeError", Nothing, <<f.req>>)
        ELSE IF \E i \in 1..Len(f.j) : each[i].error # ""
        THEN Done("networks", a, "KeyError", Nothing, <<f.req>>)
        ELSE Done("networks", a, "return",
                  Some([i \in 1..Len(f.j) |-> each[i].obj]), <<f.req>>)

\* a search is a regular expression "^" + literal, given by its literal
SearchInputs == {Nothing, Some(Str_web), Some(<<"d", "b">>)}

NetworksArgs ==
    [search : SearchInputs, fields : {Nothing, Some(<<"name">>)}]

\* datacenter.networks(**call.args) runs; the service answers with its
\* collection, or fails
Networks ==
    /\ Idle
    /\ call.op = "networks"
    /\ call.outcome = "called"
    /\ \E resp \in [kind : {"ok"}, status : {200}, body : {remote}]
                      \cup {[kind |-> "http_error", status |-> 500,
                             body |-> ErrBody],
                            [kind |-> "raise", status |-> 0,
                             body |-> ErrBody]} :
          call' = networks(call.args, resp)
    /\ UNCHANGED <<net, pc, poll, seen, lastGood, remote>>

\* a datacenter whose service holds some collection, and a call of
\* create_network or networks with any of the argument combinations
InitDC ==
    /\ net = NoProxy
    /\ lastGood = Nothing
    /\ \/ \E a \in CreateNetworkArgs : call = Called("create_network", a)
       \/ \E a \in NetworksArgs : call = Called("networks", a)
    /\ remote \in RemoteLists
    /\ pc = "idle"
    /\ poll = [op |-> "", status |-> "", sleeps |-> 0]
    /\ seen = <<>>

NextDC ==
    \/ CreateNetwork
    \/ Networks

SpecDC == InitDC /\ [][NextDC]_vars

(* ------------------------ properties: polling -------------------------- *)

\* the exchange e is a GET of networks/:id
GetNetwork(e, id) ==
    e.method = "GET" /\ e.path = <<"networks", id>> /\ e.data = Nothing

\* C1: when poll_until(target) returns, the target status is the last value
\* status() returned and no earlier one, so the number of status() calls
\* (and of GET requests) is the position at which the target first
\* appeared; and a poll_until that is still running has not seen the target.
C1_PollUntilExactCalls ==
    call.op = "poll_until" =>
        /\ \A i \in 1..(Len(seen) - 1) : seen[i] # Some(call.args.status)
        /\ call.outcome = "return" =>
              /\ Len(seen) >= 1
              /\ seen[Len(seen)] = Some(call.args.status)
              /\ Len(call.reqs) = Len(seen)
              /\ \A i \in 1..Len(call.reqs) : GetNetwork(call.reqs[i], net.id)
              /\ pc = "idle"
        /\ call.outcome = "running" =>
              \A i \in 1..Len(seen) : seen[i] # Some(call.args.status)

C1_Witness ==
    /\ call.op = "poll_until"
    /\ call.outcome = "return"
    /\ call.args.status = "running"
    /\ seen = <<Some("provisioning"), Some("provisioning"), Some("running")>>
    /\ Len(call.reqs) = 3

Polling == call.op \in {"poll_until", "poll_while"}

\* the exit condition of the running loop holds of the status value st
ExitObserved(st) ==
    IF call.op = "poll_until" THEN st = Some(call.args.status)
    ELSE st # Some(call.args.status)

\* C11: in poll_until and poll_while, if the k-th status() call raises
\* (its request got no answer), the method ends with that error after
\* exactly k status() calls and k - 1 sleeps, and issues no further
\* request; a loop that has ended has either observed its exit condition
\* in the last status() result, and in no earlier one, or ended by such an
\* error.
C11_PollPropagatesError ==
    Polling =>
        /\ \A k \in 1..Len(call.reqs) :
              call.reqs[k].status = 0 =>
                  /\ call.outcome = "RequestException"
                  /\ k = Len(call.reqs)
                  /\ Len(seen) = k - 1
                  /\ poll.sleeps = k - 1
                  /\ pc = "idle"
        /\ \A i \in 1..(Len(seen) - 1) : ~ExitObserved(seen[i])
        /\ pc = "idle" =>
              \/ /\ call.outcome = "return"
                 /\ Len(seen) >= 1
                 /\ ExitObserved(seen[Len(seen)])
                 /\ Len(call.reqs) = Len(seen)
                 /\ poll.sleeps = Len(seen) - 1
              \/ /\ call.outcome = "RequestException"
                 /\ call.reqs # <<>>
                 /\ call.reqs[Len(call.reqs)].status = 0
                 /\ \A i \in 1..Len(seen) : ~ExitObserved(seen[i])
        /\ pc # "idle" => call.outcome = "running"

C11_Witness ==
    /\ call.op = "poll_while"
    /\ call.args.status = "provisioning"
    /\ call.outcome = "RequestException"
    /\ seen = <<Some("provisioning"), Some("provisioning")>>
    /\ Len(call.reqs) = 3
    /\ call.reqs[3].status = 0
    /\ poll.sleeps = 2
    /\ pc = "idle"

(* ---------------------- properties: construction ----------------------- *)

SnapshotKeys ==
    {"name", "subnet", "resolver_ips", "private_gw_ip", "public_gw_ip"}

\* C2: a proxy constructed from a data mapping that contains an id issues
\* no request and its snapshot fields are the values of data (None for an
\* absent key).
C2_ConstructFromData ==
    (/\ call.op = "Network"
     /\ call.args.network_id = Nothing
     /\ call.args.data # Nothing
     /\ "id" \in DOMAIN call.args.data[1]) =>
        /\ call.outcome = "return"
        /\ call.reqs = <<>>
        /\ net.id = call.args.data[1].id
        /\ \A k \in SnapshotKeys : net[k] = Get(call.args.data[1], k)
        /\ net.state = Get(call.args.data[1], "status")

(* ------------------------ properties: refresh -------------------------- *)

\* the snapshot that _save makes of an optional mapping
SnapshotOf(id, od) ==
    IF od = Nothing THEN [NoProxy EXCEPT !.id = id]
    ELSE [NoProxy EXCEPT !.id = id,
                         !.name = Get(od[1], "name"),
                         !.subnet = Get(od[1], "subnet"),
                         !.resolver_ips = Get(od[1], "resolver_ips"),
                         !.private_gw_ip = Get(od[1], "private_gw_ip"),
                         !.public_gw_ip = Get(od[1], "public_gw_ip"),
                         !.state = Get(od[1], "status")]

\* C8: the snapshot fields of a proxy are those of the last mapping that
\* was loaded successfully (the construction data or the body of the last
\* successful fetch); a refresh answered by a non-success response fails
\* and changes no field.
C8_SnapshotIsLastSuccessfulFetch ==
    HasProxy => net = SnapshotOf(net.id, lastGood)

(* ---------------------- properties: set_outbound ----------------------- *)

\* C10: set_outbound with a non-boolean enabled fails with the argument
\* error and issues no request; whenever it issues a request, enabled is a
\* boolean and the request is one PUT to networks/:id/outbound.
C10_SetOutboundChecksType ==
    call.op = "set_outbound" =>
        /\ call.args.enabled.type # "bool" =>
              (call.outcome = "AssertionError" /\ call.reqs = <<>>)
        /\ call.reqs # <<>> =>
              /\ call.args.enabled.type = "bool"
              /\ Len(call.reqs) = 1
              /\ call.reqs[1].method = "PUT"
              /\ call.reqs[1].path = <<"networks", net.id, "outbound">>

C10_Witness ==
    /\ call.op = "set_outbound"
    /\ call.args.enabled = [type |-> "str", v |-> "yes"]
    /\ call.outcome = "AssertionError"
    /\ call.reqs = <<>>

(* -------------------- properties: add_inbound_rule --------------------- *)

\* the request add_inbound_rule submitted, when it submitted one
Submitted == call.op = "add_inbound_rule" /\ call.reqs # <<>>

RuleBody == call.reqs[1].data[1]

Str_0_0_0_0_0 == <<"0", ".", "0", ".", "0", ".", "0", "/", "0">>

\* C3: a submitted rule holds every omitted optional field with its
\* documented default: end_port and destination_base_port are start_port,
\* protocols is ["tcp", "udp"], source_subnet is "0.0.0.0/0".
C3_DefaultsSubmitted ==
    Submitted =>
        /\ call.args.end_port = Nothing =>
              RuleBody.end_port = call.args.start_port
        /\ call.args.protocols = Nothing =>
              RuleBody.protocols = <<"tcp", "udp">>
        /\ call.args.destination_base_port = Nothing =>
              RuleBody.destination_base_port = call.args.start_port
        /\ call.args.source_subnet = Nothing =>
              /\ "source_subnet" \in DOMAIN RuleBody
              /\ RuleBody.source_subnet = Str_0_0_0_0_0

\* a rule name as documented: 1 to 32 letters, digits, hyphens, underscores
RuleNameLegal(name) ==
    /\ Len(name) >= 1
    /\ Len(name) <= 32
    /\ \A i \in 1..Len(name) :
          name[i] \in Lower \cup Upper \cup Digit \cup {"-", "_"}

Ran(op) == call.op = op /\ call.outcome # "called"

\* C4: add_inbound_rule with a name that is empty, longer than 32
\* characters or holds a character other than a letter, digit, hyphen or
\* underscore fails with the argument error and issues no request.
C4_IllegalRuleNameRejected ==
    (Ran("add_inbound_rule") /\ ~RuleNameLegal(call.args.name)) =>
        (call.outcome = "AssertionError" /\ call.reqs = <<>>)

PortInRange(p) == p >= 0 /\ p <= 65535

\* C6: add_inbound_rule fails with the argument error and issues no
\* request when a supplied end_port is below start_port or outside
\* 0..65535, or a supplied start_port or destination_base_port is outside
\* 0..65535; a rule that is submitted holds every supplied port unchanged.
C6_IllegalPortsRejected ==
    Ran("add_inbound_rule") =>
        /\ (\/ ~PortInRange(call.args.start_port)
            \/ /\ call.args.end_port # Nothing
               /\ \/ call.args.end_port[1] < call.args.start_port
                  \/ ~PortInRange(call.args.end_port[1])
            \/ /\ call.args.destination_base_port # Nothing
               /\ ~PortInRange(call.args.destination_base_port[1])) =>
              (call.outcome = "AssertionError" /\ call.reqs = <<>>)
        /\ call.reqs # <<>> =>
              /\ RuleBody.start_port = call.args.start_port
              /\ call.args.end_port # Nothing =>
                    RuleBody.end_port = call.args.end_port[1]
              /\ call.args.destination_base_port # Nothing =>
                    RuleBody.destination_base_port =
                        call.args.destination_base_port[1]

\* C7: every rule add_inbound_rule submits satisfies
\* 0 <= start_port <= end_port <= 65535 and
\* 0 <= destination_base_port <= 65535.
C7_SubmittedPortsInRange ==
    Submitted =>
        /\ 0 <= RuleBody.start_port
        /\ RuleBody.start_port <= RuleBody.end_port
        /\ RuleBody.end_port <= 65535
        /\ 0 <= RuleBody.destination_base_port
        /\ RuleBody.destination_base_port <= 65535

C7_Witness ==
    /\ Submitted
    /\ call.reqs[1].method = "POST"
    /\ call.reqs[1].path = <<"networks", net.id, "inbound">>
    /\ call.args.end_port = Some(443)
    /\ call.args.destination_base_port = Some(8080)
    /\ RuleBody.start_port = 80
    /\ RuleBody.end_port = 443
    /\ RuleBody.destination_base_port = 8080

(* --------------------- properties: create_network ---------------------- *)

\* a network name as documented: 1 to 32 letters, digits and hyphens
NetworkNameLegal(name) ==
    /\ Len(name) >= 1
    /\ Len(name) <= 32
    /\ \A i \in 1..Len(name) : name[i] \in Lower \cup Upper \cup Digit \cup {"-"}

\* the whole of s[j..] is digits, at least one
AllDigits(s, j) == j <= Len(s) /\ \A m \in j..Len(s) : s[m] \in Digit

\* s is digits "." digits "." digits "." digits "/" digits and nothing else
IsDottedQuadCidr(s) ==
    \E d1, d2, d3, sl \in 1..Len(s) :
        /\ d1 < d2 /\ d2 < d3 /\ d3 < sl
        /\ s[d1] = "." /\ s[d2] = "." /\ s[d3] = "." /\ s[sl] = "/"
        /\ d1 > 1 /\ d2 > d1 + 1 /\ d3 > d2 + 1 /\ sl > d3 + 1
        /\ \A m \in 1..(sl - 1) : m \in {d1, d2, d3} \/ s[m] \in Digit
        /\ AllDigits(s, sl + 1)

\* C5: create_network fails with the argument error and issues no request
\* when subnet is not a dotted-quad CIDR or name is not 1 to 32 letters,
\* digits and hyphens; a POST to networks is issued only when both are
\* valid.
C5_CreateNetworkValidates ==
    Ran("create_network") =>
        /\ (~IsDottedQuadCidr(call.args.subnet)
               \/ ~NetworkNameLegal(call.args.name)) =>
              (call.outcome = "AssertionError" /\ call.reqs = <<>>)
        /\ call.reqs # <<>> =>
              /\ call.reqs[1].method = "POST"
              /\ call.reqs[1].path = <<"networks">>

(* ------------------------ properties: networks ------------------------- *)

\* entry m has a field among fields whose value starts with the literal lit
StartsWith(m, lit, fields) ==
    \E i \in 1..Len(fields) :
        /\ fields[i] \in DOMAIN m
        /\ Len(m[fields[i]]) >= Len(lit)
        /\ \A k \in 1..Len(lit) : m[fields[i]][k] = lit[k]

\* the ids of the entries of the list that match, in the list's order
RECURSIVE MatchingIds(_, _, _)
MatchingIds(list, lit, fields) ==
    IF list = <<>> THEN <<>>
    ELSE (IF StartsWith(list[1], lit, fields) THEN <<list[1].id>>
          ELSE <<>>) \o MatchingIds(Tail(list), lit, fields)

\* C9: networks(search, fields), answered with the service's list, returns
\* proxies for exactly the entries whose listed fields match the
\* expression, in the order of the list.
C9_NetworksFiltersInOrder ==
    (/\ Ran("networks")
     /\ call.args.search # Nothing
     /\ call.args.fields # Nothing
     /\ call.reqs # <<>>
     /\ call.reqs[1].status = 200) =>
        /\ call.outcome = "return"
        /\ [i \in 1..Len(call.ret[1]) |-> call.ret[1][i].id]
              = MatchingIds(remote, call.args.search[1], call.args.fields[1])

====
